---- MODULE Spec2Model ----
(***************************************************************************)
(* Reading log attribution, statistics and forecasting of ReadingQueue.    *)
(*                                                                         *)
(* The log is the Python dict of Log (date -> LogRecord), kept in date     *)
(* order; it is modelled as a sequence of records ordered as the dict is.  *)
(* Calendar dates are day numbers.  Optional values are sequences: <<>>    *)
(* is None and <<v>> is the value v.                                       *)
(***************************************************************************)
EXTENDS Integers, Sequences, FiniteSets, TLC

\* ---- bounds of the model ------------------------------------------------
MaxDay == 3          \* the clock runs over the days 1..MaxDay
MaxLogLen == 2       \* at most this many records in the log
MaxStatDay == 4      \* the logs the aggregates are computed on lie in 1..MaxStatDay
MaxTrendDay == 8     \* the week queries run on the days WeekLen..MaxTrendDay
MaxWeekDays == 8     \* a WeekStatistics is built from at most this many days
MaxDataDay == 4      \* the logs data() is stepped through lie in 1..MaxDataDay
MaxSpanDay == 5      \* the spans requested lie in 1..MaxSpanDay
MaxAgo == 2          \* a span is moved back by at most this many days
MaxOver == 1         \* repeats recorded beyond the daily limit

\* ---- the catalogue the model draws from ---------------------------------
Materials == {1, 2}                    \* material ids; material A = 1, B = 2
Counts == {1, 5, 10, 25}               \* page counts a log call may carry
\* the Materials table: material M1 has 100 pages, M2 has 50
pages == [m \in Materials |-> IF m = 1 THEN 100 ELSE 50]
StatCounts == {1, 2, 3, 4}             \* the counts of the logs of the aggregates
TrendCounts == {1, 5}                  \* the counts of the logs of the week queries
WeekLen == 7                           \* the days of a week

None == <<>>
Some(x) == <<x>>

VARIABLES
  today,      \* the date today() returns
  log,        \* Log.__log: sequence of [date, count, material_id]
  statuses,   \* Statuses table: material id -> None or Some([started_at, completed_at])
  out,        \* outcome of the last call: [op, err, val]
  file,       \* the content of the log file LOG_PATH, as dump() wrote it
  current_card,   \* Cards.__current_card: None or Some(card id)
  repeated    \* the number of cards repeated today, as the database holds it

vars == <<today, log, statuses, out, file, current_card, repeated>>

\* ---- helpers --------------------------------------------------------------
RECURSIVE SumSeq(_)
SumSeq(s) == IF s = <<>> THEN 0 ELSE Head(s) + SumSeq(Tail(s))

RECURSIVE SelectCounts(_)
\* the counts of a sequence of records, in order
SelectCounts(s) == IF s = <<>> THEN <<>> ELSE <<Head(s).count>> \o SelectCounts(Tail(s))

Last(s) == s[Len(s)]

\* ---- src/src/tracker.py: module level -------------------------------------
yesterday == today - 1

safe_list_get(list_, index, default) ==
  LET i == IF index < 0 THEN Len(list_) + index + 1 ELSE index + 1
  IN  IF i \in 1..Len(list_) THEN list_[i] ELSE default

\* round(n / d) of Python 3 for d > 0: nearest integer, a tie goes to the even one
round(n, d) ==
  LET q == n \div d
      r == n % d
  IN  IF 2 * r < d THEN q
      ELSE IF 2 * r > d THEN q + 1
      ELSE IF q % 2 = 0 THEN q ELSE q + 1

\* ---- the status catalogue -------------------------------------------------
\* db.get_completion_dates(): material id -> completion date, for completed materials
completion_dates ==
  [m \in {x \in DOMAIN statuses : statuses[x] # None /\ statuses[x][1].completed_at # None}
     |-> statuses[m][1].completed_at[1]]

\* ---- class Log ------------------------------------------------------------
LogDates(self) == {self[i].date : i \in 1..Len(self)}

\* self.log.get(date): the record of the date, or None
LogGet(self, date) ==
  IF date \in LogDates(self)
  THEN Some(CHOOSE r \in {self[i] : i \in 1..Len(self)} : r.date = date)
  ELSE None

start(self) == self[1].date
stop(self) == Last(self).date

total(self) == SumSeq(SelectCounts(self))

\* the duration without the last day: (stop - start).days
duration_exclusive(self) == IF self = <<>> THEN 0 ELSE stop(self) - start(self)

duration(self) == IF self = <<>> THEN 0 ELSE (stop(self) - start(self)) + 1

lost_time(self) == duration(self) - Len(self)

\* the average with 0 in place of 1 on ZeroDivisionError
average_zero(self) == IF duration(self) = 0 THEN 0 ELSE total(self) \div duration(self)

average(self) == IF duration(self) = 0 THEN 1 ELSE total(self) \div duration(self)

would_be_total(self) == total(self) + average(self) * lost_time(self)

\* the turn of the loop with the completion test completion_date < iter_:
\* a material stays on the stack through its completion day
DataStep_strict(self, iter_, materials) ==
  LET last0 == safe_list_get(materials, -1, 0)
      hit == /\ last0 \in DOMAIN completion_dates
             /\ completion_dates[last0] < iter_
      materials1 == IF hit /\ materials # <<>>
                    THEN SubSeq(materials, 1, Len(materials) - 1)
                    ELSE materials
      last_material_id == IF hit THEN safe_list_get(materials1, -1, 0) ELSE last0
      rec == LogGet(self, iter_)
  IN  IF rec = None
      THEN [info |-> [date |-> iter_, count |-> 0, material_id |-> last_material_id],
            materials |-> materials1, err |-> FALSE]
      ELSE [info |-> rec[1],
            materials |->
              Append(SelectSeq(materials1, LAMBDA x : x # rec[1].material_id),
                     rec[1].material_id),
            err |-> FALSE]

\* the turn of the loop with the record of a logged day rewritten to the
\* material on top of the stack
DataStep_override(self, iter_, materials) ==
  LET last_material_id == safe_list_get(materials, -1, 0)
      rec == LogGet(self, iter_)
  IN  [info |-> [date |-> iter_,
                 count |-> IF rec = None THEN 0 ELSE rec[1].count,
                 material_id |-> last_material_id],
       materials |-> IF rec = None \/ rec[1].material_id = last_material_id
                     THEN materials
                     ELSE Append(materials, rec[1].material_id),
       err |-> FALSE]

\* the turn of the loop with a new material put in place of the whole stack
DataStep_replace(self, iter_, materials) ==
  LET last_material_id == safe_list_get(materials, -1, 0)
      rec == LogGet(self, iter_)
  IN  IF rec = None
      THEN [info |-> [date |-> iter_, count |-> 0, material_id |-> last_material_id],
            materials |-> materials, err |-> FALSE]
      ELSE [info |-> rec[1], materials |-> <<rec[1].material_id>>, err |-> FALSE]

\* the turn of the loop with the material of a logged day pushed every time
DataStep_pushAlways(self, iter_, materials) ==
  LET last_material_id == safe_list_get(materials, -1, 0)
      rec == LogGet(self, iter_)
  IN  IF rec = None
      THEN [info |-> [date |-> iter_, count |-> 0, material_id |-> last_material_id],
            materials |-> materials, err |-> FALSE]
      ELSE [info |-> rec[1], materials |-> Append(materials, rec[1].material_id),
            err |-> FALSE]

\* one turn of the while loop of Log.data(): the record of the day iter_ and
\* the stack of materials after it
DataStep(self, iter_, materials) ==
  LET last0 == safe_list_get(materials, -1, 0)
      hit == /\ last0 \in DOMAIN completion_dates
             /\ completion_dates[last0] <= iter_
      popErr == hit /\ materials = <<>>
      materials1 == IF hit /\ materials # <<>>
                    THEN SubSeq(materials, 1, Len(materials) - 1)
                    ELSE materials
      last_material_id == IF hit THEN safe_list_get(materials1, -1, 0) ELSE last0
      rec == LogGet(self, iter_)
  IN  IF rec = None
      THEN [info |-> [date |-> iter_, count |-> 0, material_id |-> last_material_id],
            materials |-> materials1, err |-> popErr]
      ELSE LET material_id == rec[1].material_id
               onStack == \E i \in 1..Len(materials1) : materials1[i] = material_id
               materials2 ==
                 IF ~onStack
                 THEN Append(materials1, material_id)
                 ELSE IF material_id # last_material_id
                 THEN Append(SelectSeq(materials1, LAMBDA x : x # material_id), material_id)
                 ELSE materials1
           IN  [info |-> rec[1], materials |-> materials2, err |-> popErr]

RECURSIVE DataLoop(_, _, _, _)
DataLoop(self, iter_, materials, acc) ==
  IF iter_ <= today
  THEN LET s == DataStep(self, iter_, materials)
       IN  IF s.err
           THEN [series |-> acc, materials |-> materials, err |-> TRUE]
           ELSE DataLoop(self, iter_ + 1, s.materials, Append(acc, s.info))
  ELSE [series |-> acc, materials |-> materials, err |-> FALSE]

RECURSIVE DataLoopBeforeToday(_, _, _, _)
DataLoopBeforeToday(self, iter_, materials, acc) ==
  IF iter_ < today
  THEN LET s == DataStep(self, iter_, materials)
       IN  DataLoopBeforeToday(self, iter_ + 1, s.materials, Append(acc, s.info))
  ELSE [series |-> acc, materials |-> materials, err |-> FALSE]

\* Log.data() with the loop condition iter_ < today()
DataRun_beforeToday(self) ==
  IF self = <<>>
  THEN [series |-> <<>>, materials |-> <<>>, err |-> FALSE]
  ELSE DataLoopBeforeToday(self, start(self), <<>>, <<>>)

\* Log.data() run to its end: the records yielded, the final stack, and
\* whether materials.pop() raised IndexError
DataRun(self) ==
  IF self = <<>>
  THEN [series |-> <<>>, materials |-> <<>>, err |-> FALSE]
  ELSE DataLoop(self, start(self), <<>>, <<>>)

data(self) == DataRun(self).series

\* fmt(date): the date as the text strftime(DATE_FORMAT) gives
fmt(date) == <<"%d-%m-%Y", date>>

\* Log.dump(): the JSON object written to the file, fmt(date) -> the
\* material_id and the count of the record
dump(self) ==
  [i \in 1..Len(self) |-> [date |-> fmt(self[i].date),
                           material_id |-> self[i].material_id,
                           count |-> self[i].count]]

\* material_id in self
Contains(self, material_id) ==
  \E i \in 1..Len(self) : self[i].material_id = material_id

\* the records of the material, in log order
Sample(self, material_id) == SelectSeq(self, LAMBDA r : r.material_id = material_id)

\* min(sample, key=count) and max(sample, key=count): the first record in
\* date order among those with the least, or the greatest, count
MinBy(sample) ==
  LET i == CHOOSE i \in 1..Len(sample) :
             /\ \A j \in 1..Len(sample) : sample[i].count <= sample[j].count
             /\ \A j \in 1..(i - 1) : sample[j].count > sample[i].count
  IN  sample[i]

\* max(..., key=count) keeping the last of the records that share the count
MaxBy_last(sample) ==
  LET i == CHOOSE i \in 1..Len(sample) :
             /\ \A j \in 1..Len(sample) : sample[i].count >= sample[j].count
             /\ \A j \in (i + 1)..Len(sample) : sample[j].count < sample[i].count
  IN  sample[i]

MaxBy(sample) ==
  LET i == CHOOSE i \in 1..Len(sample) :
             /\ \A j \in 1..Len(sample) : sample[i].count >= sample[j].count
             /\ \A j \in 1..(i - 1) : sample[j].count < sample[i].count
  IN  sample[i]

Raise(e) == [err |-> e, val |-> <<>>]
Return(v) == [err |-> "", val |-> v]

m_duration(self, material_id) ==
  IF ~Contains(self, material_id) THEN Raise("NoMaterialInLog")
  ELSE Return(Len(SelectSeq(data(self), LAMBDA r : r.material_id = material_id)))

m_total(self, material_id) ==
  IF ~Contains(self, material_id) THEN Raise("NoMaterialInLog")
  ELSE Return(SumSeq(SelectCounts(Sample(self, material_id))))

m_lost_time(self, material_id) ==
  IF ~Contains(self, material_id) THEN Raise("NoMaterialInLog")
  ELSE Return(Len(SelectSeq(data(self),
                LAMBDA r : r.material_id = material_id /\ r.count = 0)))

m_min(self, material_id) ==
  IF ~Contains(self, material_id) THEN Raise("NoMaterialInLog")
  ELSE Return(MinBy(Sample(self, material_id)))

m_max(self, material_id) ==
  IF ~Contains(self, material_id) THEN Raise("NoMaterialInLog")
  ELSE Return(MaxBy(Sample(self, material_id)))

\* total // duration over the days of the material; 0 on ZeroDivisionError
FloorAverage(total_, duration_) ==
  IF duration_ = 0 THEN 0 ELSE total_ \div duration_

\* the days of data() that belong to the material
MaterialDays(self, material_id) ==
  SelectSeq(data(self), LAMBDA r : r.material_id = material_id)

AverageOfDays(mine) == FloorAverage(SumSeq(SelectCounts(mine)), Len(mine))

m_average(self, material_id) ==
  IF ~Contains(self, material_id) THEN Raise("NoMaterialInLog")
  ELSE Return(AverageOfDays(MaterialDays(self, material_id)))

\* Log.reading_material: the material of the last day of data()
LastMaterial(d) == IF d = <<>> THEN 0 ELSE Last(d).material_id

reading_material(self) ==
  IF self = <<>> THEN Raise("ReadingLogIsEmpty")
  ELSE Return(LastMaterial(data(self)))

\* dict(sorted(self.log.items(), key=date)): insertion of the new record at
\* its place in date order
RECURSIVE SortByDate(_)
SortByDate(s) ==
  IF s = <<>> THEN <<>>
  ELSE LET m == CHOOSE i \in 1..Len(s) : \A j \in 1..Len(s) : s[i].date <= s[j].date
       IN  <<s[m]>> \o SortByDate(SubSeq(s, 1, m - 1) \o SubSeq(s, m + 1, Len(s)))

\* material_id or self.reading_material
MaterialOr(self, material_id) ==
  IF material_id # None /\ material_id[1] # 0
  THEN material_id[1]
  ELSE reading_material(self).val

SetLogFails(err, self) == [err |-> err, log |-> self]

\* Log._set_log without the two tests of the date
set_log_unchecked(self, date, count, material_id, titleFails) ==
  IF count <= 0 THEN SetLogFails("WrongLogParam", self)
  ELSE IF self = <<>> THEN SetLogFails("ReadingLogIsEmpty", self)
  ELSE IF titleFails THEN SetLogFails("DatabaseError", self)
  ELSE [err |-> "",
        log |-> SortByDate(Append(self, [date |-> date, count |-> count,
                                         material_id |-> MaterialOr(self, material_id)]))]

\* Log._set_log with the record stored before the title is looked up
set_log_recordFirst(self, date, count, material_id, titleFails) ==
  IF count <= 0 THEN SetLogFails("WrongLogParam", self)
  ELSE IF self = <<>> THEN SetLogFails("ReadingLogIsEmpty", self)
  ELSE IF date <= stop(self) THEN SetLogFails("WrongLogParam", self)
  ELSE IF date \in LogDates(self) THEN SetLogFails("WrongLogParam", self)
  ELSE IF material_id = None /\ Len(self) = 0 THEN SetLogFails("WrongLogParam", self)
  ELSE [err |-> IF titleFails THEN "DatabaseError" ELSE "",
        log |-> SortByDate(Append(self, [date |-> date, count |-> count,
                                         material_id |-> MaterialOr(self, material_id)]))]

\* Log._set_log: the error it raises ("" when it succeeds) and the log after it
set_log(self, date, count, material_id, titleFails) ==
  IF count <= 0 THEN SetLogFails("WrongLogParam", self)
  ELSE IF self = <<>> THEN SetLogFails("ReadingLogIsEmpty", self)
  ELSE IF date <= stop(self) THEN SetLogFails("WrongLogParam", self)
  ELSE IF date \in LogDates(self) THEN SetLogFails("WrongLogParam", self)
  ELSE IF material_id = None /\ Len(self) = 0 THEN SetLogFails("WrongLogParam", self)
  ELSE IF titleFails THEN SetLogFails("DatabaseError", self)
  ELSE [err |-> "",
        log |-> SortByDate(Append(self, [date |-> date, count |-> count,
                                         material_id |-> MaterialOr(self, material_id)]))]

\* Log.min and Log.max: the record of the least, or the greatest, count
min(self) ==
  IF self = <<>> THEN Raise("ReadingLogIsEmpty") ELSE Return(MinBy(self))

max(self) ==
  IF self = <<>> THEN Raise("ReadingLogIsEmpty") ELSE Return(MaxBy(self))

RECURSIVE Sorted(_)
\* sorted(data): the numbers in increasing order
Sorted(s) ==
  IF s = <<>> THEN <<>>
  ELSE LET m == CHOOSE i \in 1..Len(s) : \A j \in 1..Len(s) : s[i] <= s[j]
       IN  <<s[m]>> \o Sorted(SubSeq(s, 1, m - 1) \o SubSeq(s, m + 1, Len(s)))

\* A number that need not be whole is the fraction num / den: an int has
\* den = 1, the float of a true division by 2 has den = 2.
Whole(n) == [num |-> n, den |-> 1]
Halves(n) == [num |-> n, den |-> 2]

\* the median with the two central values averaged by floor division
MedianOfSorted_floor(d) ==
  IF Len(d) % 2 = 1
  THEN Whole(d[(Len(d) \div 2) + 1])
  ELSE Whole((d[Len(d) \div 2] + d[(Len(d) \div 2) + 1]) \div 2)

\* statistics.median on the sorted data: the middle value of an odd number of
\* values, (data[i - 1] + data[i]) / 2 of an even number
MedianOfSorted(d) ==
  IF Len(d) % 2 = 1
  THEN Whole(d[(Len(d) \div 2) + 1])
  ELSE Halves(d[Len(d) \div 2] + d[(Len(d) \div 2) + 1])

\* Log.median raising on an empty log, as Log.min and Log.max do
median_guarded(self) ==
  IF self = <<>> THEN Raise("ReadingLogIsEmpty")
  ELSE Return(MedianOfSorted(Sorted(SelectCounts(self))))

\* Log.median: 0 for an empty log
median(self) ==
  IF self = <<>> THEN Return(Whole(0))
  ELSE Return(MedianOfSorted(Sorted(SelectCounts(self))))

\* Log.statistics
log_statistics(self) ==
  IF self = <<>> THEN Raise("ReadingLogIsEmpty")
  ELSE Return([start_date |-> start(self),
               stop_date |-> stop(self),
               duration |-> duration(self),
               lost_time |-> lost_time(self),
               average |-> average(self),
               total_pages_read |-> total(self),
               would_be_total |-> would_be_total(self),
               min |-> MinBy(self),
               max |-> MaxBy(self),
               median |-> MedianOfSorted(Sorted(SelectCounts(self)))])

\* inside_if(_start, _iter, _stop) of Log.__getitem__, for the sign of the step
inside_if(step, start_, iter_, stop_) ==
  IF step < 0
  THEN start_ >= iter_ /\ iter_ >= stop_
  ELSE start_ <= iter_ /\ iter_ <= stop_

RECURSIVE SliceLoop(_, _, _, _, _, _)
\* the while loop of Log.__getitem__: the records gathered into new_log_content
SliceLoop(self, start_, iter_, stop_, step, acc) ==
  IF inside_if(step, start_, iter_, stop_)
  THEN SliceLoop(self, start_, iter_ + step, stop_, step,
                 IF iter_ \in LogDates(self)
                 THEN Append(acc, LogGet(self, iter_)[1])
                 ELSE acc)
  ELSE acc

\* the slice from the bounds and the step all given
SliceOf(self, start_, stop_, step) ==
  IF step < 0
  THEN SliceLoop(self, stop_, stop_, start_, step, <<>>)
  ELSE SliceLoop(self, start_, start_, stop_, step, <<>>)

\* Log.__getitem__ with a slice of dates: start_, stop_ and step_ are None or
\* given; the result is the content of the new Log
getitem(self, start_, stop_, step_) ==
  IF self = <<>> THEN Raise("ReadingLogIsEmpty")
  ELSE IF start_ # None /\ stop_ # None /\ start_[1] > stop_[1]
  THEN Raise("AssertionError")
  ELSE Return(SliceOf(self,
                      IF start_ = None THEN start(self) ELSE start_[1],
                      IF stop_ = None THEN stop(self) ELSE stop_[1],
                      IF step_ = None \/ step_ = Some(0) THEN 1 ELSE step_[1]))

\* ---- src/tracker/tracker.py: class Log ---------------------------------------
\* Log.m_min and Log.m_max of the later module
tracker_m_min(self, material_id) ==
  IF ~Contains(self, material_id) THEN Raise("ValueError")
  ELSE Return(MinBy(Sample(self, material_id)))

tracker_m_max(self, material_id) ==
  IF ~Contains(self, material_id) THEN Raise("ValueError")
  ELSE Return(MaxBy(Sample(self, material_id)))

\* ---- class Tracker --------------------------------------------------------
RECURSIVE SetToSeq(_)
\* the ids of a set, in increasing order
SetToSeq(S) ==
  IF S = {} THEN <<>>
  ELSE LET m == CHOOSE x \in S : \A y \in S : x <= y
       IN  <<m>> \o SetToSeq(S \ {m})

\* get_free_materials(): the materials with no status, in the order added
queue == SetToSeq({m \in Materials : statuses[m] = None})

\* get_reading_materials(): the materials started and not completed
reading == SetToSeq({m \in Materials :
                       statuses[m] # None /\ statuses[m][1].completed_at = None})

\* the statistics record, or ZeroDivisionError, from the figures of the log
MaterialStatisticsOf(material_id, status, avg, total_, duration_, lost_time_, min_, max_) ==
  IF status.completed_at # None
  THEN Return([material_id |-> material_id,
               started |-> status.started_at,
               completed |-> status.completed_at,
               duration |-> duration_,
               lost_time |-> lost_time_,
               total |-> total_,
               min |-> min_,
               max |-> max_,
               average |-> avg,
               remaining_pages |-> None,
               remaining_days |-> None,
               would_be_completed |-> None])
  ELSE IF avg = 0 THEN Raise("ZeroDivisionError")
  ELSE Return([material_id |-> material_id,
               started |-> status.started_at,
               completed |-> status.completed_at,
               duration |-> duration_,
               lost_time |-> lost_time_,
               total |-> total_,
               min |-> min_,
               max |-> max_,
               average |-> avg,
               remaining_pages |-> Some(pages[material_id] - total_),
               remaining_days |-> Some(round(pages[material_id] - total_, avg)),
               would_be_completed |->
                 Some(today + round(pages[material_id] - total_, avg))])

get_material_statistics(material_id) ==
  IF Contains(log, material_id)
  THEN MaterialStatisticsOf(material_id, statuses[material_id][1],
                            m_average(log, material_id).val,
                            m_total(log, material_id).val,
                            m_duration(log, material_id).val,
                            m_lost_time(log, material_id).val,
                            Some(m_min(log, material_id).val),
                            Some(m_max(log, material_id).val))
  ELSE MaterialStatisticsOf(material_id, statuses[material_id][1],
                            average(log), 0, 0, 0, None, None)

\* the results of a list of calls: the error of the first that raised, or the
\* list of the values
Collect(st) ==
  IF \E i \in 1..Len(st) : st[i].err # ""
  THEN Raise(st[CHOOSE i \in 1..Len(st) :
                  st[i].err # "" /\ \A j \in 1..(i - 1) : st[j].err = ""].err)
  ELSE Return([i \in 1..Len(st) |-> st[i].val])

\* Tracker.statistics: the statistics of each material of the list
statistics(materials) ==
  Collect([i \in 1..Len(materials) |-> get_material_statistics(materials[i])])

RECURSIVE SumRemaining(_)
\* sum(stat.remaining_days for stat in ...): a None makes sum() raise TypeError
SumRemaining(stats) ==
  IF stats = <<>> THEN Return(0)
  ELSE IF Head(stats).remaining_days = None THEN Raise("TypeError")
  ELSE IF SumRemaining(Tail(stats)).err # "" THEN Raise("TypeError")
  ELSE Return(Head(stats).remaining_days[1] + SumRemaining(Tail(stats)).val)

\* today() + timedelta(days=remaining_days + 1)
EndOfReadingAfter(remaining_days) ==
  IF remaining_days.err # "" THEN Raise(remaining_days.err)
  ELSE Return(today + (remaining_days.val + 1))

EndOfReadingOf(st) ==
  IF st.err # "" THEN Raise(st.err) ELSE EndOfReadingAfter(SumRemaining(st.val))

end_of_reading == EndOfReadingOf(statistics(reading))

RECURSIVE Forecasts(_, _, _)
\* the for loop of estimate over the rest of the queue
Forecasts(materials, avg, last_date) ==
  IF materials = <<>> THEN <<>>
  ELSE <<[material |-> Head(materials),
          will_be_started |-> last_date,
          will_be_completed |-> last_date + round(pages[Head(materials)], avg),
          expected_duration |-> round(pages[Head(materials)], avg)]>>
       \o Forecasts(Tail(materials), avg,
                    (last_date + round(pages[Head(materials)], avg)) + 1)

\* estimate with last_date = start: no day added before the first material
EstimateFromStart(start_, avg) ==
  IF start_.err # "" THEN Raise(start_.err)
  ELSE IF queue # <<>> /\ avg = 0 THEN Raise("ZeroDivisionError")
  ELSE Return(Forecasts(queue, avg, start_.val))

\* estimate from the end-of-reading date and the average of the log
EstimateFrom(start_, avg) ==
  IF start_.err # "" THEN Raise(start_.err)
  ELSE IF queue # <<>> /\ avg = 0 THEN Raise("ZeroDivisionError")
  ELSE Return(Forecasts(queue, avg, start_.val + 1))

estimate == EstimateFrom(end_of_reading, average(log))

\* ---- src/tracker/trends/db.py ------------------------------------------------
\* an exception whose message carries the values it was raised about
RaiseAbout(e, about) == [err |-> e, val |-> about]

\* WeekStatistics.__init__ refusing only more than 7 days
WeekStatistics_atMost(days) ==
  IF Len(days) > WeekLen THEN RaiseAbout("TrendException", <<Len(days)>>)
  ELSE Return([data |-> days])

\* WeekStatistics.__init__: days is a sequence of [date, amount]
WeekStatistics(days) ==
  IF Len(days) # WeekLen THEN RaiseAbout("TrendException", <<Len(days)>>)
  ELSE Return([data |-> days])

\* WeekBorder.__init__
WeekBorder(start_, stop_) ==
  IF stop_ - start_ # 6 THEN RaiseAbout("TrendException", <<start_, stop_>>)
  ELSE Return([start |-> start_, stop |-> stop_])

\* _get_week_range(): the seven days that end today
get_week_range == WeekBorder(today - 6, today)

\* _iterate_over_week(week): the dates start + 0 .. start + 6
iterate_over_week(week) == [day \in 1..WeekLen |-> week.start + (day - 1)]

\* _calculate_week_reading_statistics(week): date -> count of the rows of the
\* reading log whose date lies in the week
calculate_week_reading_statistics(self, week) ==
  [d \in {x \in LogDates(self) : x >= week.start /\ x <= week.stop}
     |-> LogGet(self, d)[1].count]

\* DayStatistics(date=date, amount=statistics.get(date, 0))
DayStatisticsOf(statistics_, date) ==
  [date |-> date,
   amount |-> IF date \in DOMAIN statistics_ THEN statistics_[date] ELSE 0]

\* _get_week_statistics over the days the source has a value for only
get_week_statistics_available(statistics_, week) ==
  WeekStatistics(
    SelectSeq([i \in 1..WeekLen |-> DayStatisticsOf(statistics_, iterate_over_week(week)[i])],
              LAMBDA day : day.date \in DOMAIN statistics_))

\* _get_week_statistics(statistics=..., week=...)
get_week_statistics(statistics_, week) ==
  WeekStatistics([i \in 1..WeekLen |->
                    DayStatisticsOf(statistics_, iterate_over_week(week)[i])])

\* get_week_reading_statistics()
get_week_reading_statistics ==
  get_week_statistics(calculate_week_reading_statistics(log, get_week_range.val),
                      get_week_range.val)

\* ---- actions --------------------------------------------------------------
\* The program is sequential: a call is taken when no outcome is pending, and
\* its outcome is handed back before the next call is taken.
Quiet == [op |-> "none", err |-> "", val |-> <<>>]

Outcome(op, err, val) == [op |-> op, err |-> err, val |-> val]

\* the outcome of the last call is handed to the caller
HandBack ==
  /\ out # Quiet
  /\ out' = Quiet
  /\ UNCHANGED <<today, log, statuses, file, current_card, repeated>>

\* the clock passes midnight
NextDay ==
  /\ out = Quiet
  /\ today < MaxDay
  /\ today' = today + 1
  /\ UNCHANGED <<log, statuses, out, file, current_card, repeated>>

SetLog(op, date, count, material_id, titleFails) ==
  LET r == set_log(log, date, count, material_id, titleFails)
  IN  /\ out = Quiet
      /\ r.err = "" => Len(log) < MaxLogLen
      /\ log' = r.log
      /\ out' = Outcome(op, r.err, <<>>)
      /\ file' = IF r.err = "" THEN dump(r.log) ELSE file
      /\ UNCHANGED <<today, statuses, current_card, repeated>>

set_today_log ==
  \E count \in Counts \cup {0}, material_id \in {None} \cup {Some(m) : m \in Materials},
     titleFails \in BOOLEAN :
    SetLog("set_today_log", today, count, material_id, titleFails)

set_yesterday_log ==
  \E count \in Counts \cup {0}, material_id \in {None} \cup {Some(m) : m \in Materials},
     titleFails \in BOOLEAN :
    SetLog("set_yesterday_log", yesterday, count, material_id, titleFails)

\* the status rows after start_material, and the error it raises; a second
\* status row for a material is refused by the table's key
StartMaterial(material_id, start_date) ==
  LET date == IF start_date = None THEN today ELSE start_date[1]
  IN  IF date > today
      THEN [err |-> "ValueError", statuses |-> statuses]
      ELSE IF statuses[material_id] # None
      THEN [err |-> "DatabaseError", statuses |-> statuses]
      ELSE [err |-> "",
            statuses |-> [statuses EXCEPT ![material_id] =
                            Some([started_at |-> date, completed_at |-> None])]]

start_material ==
  \E material_id \in Materials, start_date \in {None, Some(yesterday), Some(today + 1)} :
    LET r == StartMaterial(material_id, start_date)
    IN  /\ out = Quiet
        /\ start_date # None => start_date[1] >= 1
        /\ statuses' = r.statuses
        /\ out' = Outcome("start_material", r.err, <<>>)
        /\ UNCHANGED <<today, log, file, current_card, repeated>>

\* complete_material without the test of started_at against the completion date
CompleteMaterial_anyDate(material_id, completion_date) ==
  LET date == IF completion_date = None THEN today ELSE completion_date[1]
      status == statuses[material_id]
  IN  IF status = None THEN [err |-> "ValueError", statuses |-> statuses]
      ELSE IF status[1].completed_at # None
      THEN [err |-> "ValueError", statuses |-> statuses]
      ELSE [err |-> "",
            statuses |-> [statuses EXCEPT ![material_id] =
                            Some([status[1] EXCEPT !.completed_at = Some(date)])]]

\* complete_material without the test of a completion date already set
CompleteMaterial_again(material_id, completion_date) ==
  LET date == IF completion_date = None THEN today ELSE completion_date[1]
      status == statuses[material_id]
  IN  IF status = None THEN [err |-> "ValueError", statuses |-> statuses]
      ELSE IF status[1].started_at > date
      THEN [err |-> "ValueError", statuses |-> statuses]
      ELSE [err |-> "",
            statuses |-> [statuses EXCEPT ![material_id] =
                            Some([status[1] EXCEPT !.completed_at = Some(date)])]]

\* the status rows after complete_material, and the error it raises
CompleteMaterial(material_id, completion_date) ==
  LET date == IF completion_date = None THEN today ELSE completion_date[1]
      status == statuses[material_id]
  IN  IF status = None THEN [err |-> "ValueError", statuses |-> statuses]
      ELSE IF status[1].completed_at # None
      THEN [err |-> "ValueError", statuses |-> statuses]
      ELSE IF status[1].started_at > date
      THEN [err |-> "ValueError", statuses |-> statuses]
      ELSE [err |-> "",
            statuses |-> [statuses EXCEPT ![material_id] =
                            Some([status[1] EXCEPT !.completed_at = Some(date)])]]

complete_material ==
  \E material_id \in Materials, completion_date \in {None, Some(yesterday)} :
    LET r == CompleteMaterial(material_id, completion_date)
    IN  /\ out = Quiet
        /\ completion_date # None => completion_date[1] >= 1
        /\ statuses' = r.statuses
        /\ out' = Outcome("complete_material", r.err, <<>>)
        /\ UNCHANGED <<today, log, file, current_card, repeated>>

CallData ==
  /\ out = Quiet
  /\ LET r == DataRun(log)
     IN  out' = Outcome("data", IF r.err THEN "IndexError" ELSE "", r.series)
  /\ UNCHANGED <<today, log, statuses, file, current_card, repeated>>

CallLostTime ==
  /\ out = Quiet
  /\ out' = Outcome("lost_time", "", <<lost_time(log)>>)
  /\ UNCHANGED <<today, log, statuses, file, current_card, repeated>>

CallMaterialStatistics ==
  \E material_id \in Materials :
    /\ out = Quiet
    /\ statuses[material_id] # None
    /\ LET r == get_material_statistics(material_id)
       IN  out' = Outcome("get_material_statistics", r.err, <<r.val>>)
    /\ UNCHANGED <<today, log, statuses, file, current_card, repeated>>

CallEndOfReading ==
  /\ out = Quiet
  /\ LET r == end_of_reading
     IN  out' = Outcome("_end_of_reading", r.err, <<r.val>>)
  /\ UNCHANGED <<today, log, statuses, file, current_card, repeated>>

CallEstimate ==
  /\ out = Quiet
  /\ LET r == estimate
     IN  out' = Outcome("estimate", r.err, r.val)
  /\ UNCHANGED <<today, log, statuses, file, current_card, repeated>>

\* the frame of the generator Log.data() between two yields
DataFrame(iter_, materials, info, done) ==
  [iter_ |-> iter_, materials |-> materials, info |-> info, done |-> done]

\* log.data() is called: the generator stands before its first turn; on an
\* empty log it returns at once
CallDataIter ==
  /\ out = Quiet
  /\ out' = Outcome("data.iter", "",
                    IF log = <<>>
                    THEN DataFrame(0, <<>>, None, TRUE)
                    ELSE DataFrame(start(log), <<>>, None, FALSE))
  /\ UNCHANGED <<today, log, statuses, file, current_card, repeated>>

\* next() on the generator: one turn of the while loop, up to the yield, or
\* the end of the loop
DataTurn ==
  /\ out.op = "data.iter"
  /\ out.err = ""
  /\ ~out.val.done
  /\ LET s == DataStep(log, out.val.iter_, out.val.materials)
     IN  out' = IF out.val.iter_ > today
                THEN Outcome("data.iter", "",
                             DataFrame(out.val.iter_, out.val.materials, None, TRUE))
                ELSE IF s.err
                THEN Outcome("data.iter", "IndexError", out.val)
                ELSE Outcome("data.iter", "",
                             DataFrame(out.val.iter_ + 1, s.materials, Some(s.info), FALSE))
  /\ UNCHANGED <<today, log, statuses, file, current_card, repeated>>

\* a property or a query of the log is read: the log is left as it is
LogQuery(op, r) ==
  /\ out = Quiet
  /\ out' = Outcome(op, r.err, r.val)
  /\ UNCHANGED <<today, log, statuses, file, current_card, repeated>>

CallTotal == LogQuery("total", Return(<<total(log)>>))

CallDuration == LogQuery("duration", Return(<<duration(log)>>))

CallAverage == LogQuery("average", Return(<<average(log)>>))

CallWouldBeTotal == LogQuery("would_be_total", Return(<<would_be_total(log)>>))

CallMin == LogQuery("min", min(log))

CallMax == LogQuery("max", max(log))

CallMedian == LogQuery("median", median(log))

CallLogStatistics == LogQuery("statistics", log_statistics(log))

\* log[start:stop:step]: the outcome keeps the slice asked for
CallGetItem ==
  \E start_ \in {None} \cup {Some(d) : d \in 1..MaxStatDay},
     stop_ \in {None} \cup {Some(d) : d \in 1..MaxStatDay},
     step_ \in {None, Some(2), Some(-1)} :
    LET r == getitem(log, start_, stop_, step_)
    IN  /\ out = Quiet
        /\ out' = Outcome("getitem", r.err,
                          [start |-> start_, stop |-> stop_, step |-> step_, log |-> r.val])
        /\ UNCHANGED <<today, log, statuses, file, current_card, repeated>>

\* a per-material query: the outcome keeps the material id asked about
MaterialQuery(op, material_id, r) ==
  /\ out = Quiet
  /\ out' = Outcome(op, r.err, <<material_id, r.val>>)
  /\ UNCHANGED <<today, log, statuses, file, current_card, repeated>>

CallMDuration ==
  \E material_id \in Materials :
    MaterialQuery("m_duration", material_id, m_duration(log, material_id))

CallMTotal ==
  \E material_id \in Materials :
    MaterialQuery("m_total", material_id, m_total(log, material_id))

CallMLostTime ==
  \E material_id \in Materials :
    MaterialQuery("m_lost_time", material_id, m_lost_time(log, material_id))

CallMMin ==
  \E material_id \in Materials :
    MaterialQuery("m_min", material_id, m_min(log, material_id))

CallMMax ==
  \E material_id \in Materials :
    MaterialQuery("m_max", material_id, m_max(log, material_id))

CallMAverage ==
  \E material_id \in Materials :
    MaterialQuery("m_average", material_id, m_average(log, material_id))

CallTrackerMMin ==
  \E material_id \in Materials :
    MaterialQuery("tracker.m_min", material_id, tracker_m_min(log, material_id))

CallTrackerMMax ==
  \E material_id \in Materials :
    MaterialQuery("tracker.m_max", material_id, tracker_m_max(log, material_id))

\* WeekStatistics(days) on the first n days of the week that ends today
CallWeekStatistics ==
  \E n \in 0..MaxWeekDays :
    LogQuery("WeekStatistics",
             WeekStatistics([i \in 1..n |->
               DayStatisticsOf(calculate_week_reading_statistics(
                                 log, [start |-> today - 6, stop |-> today + 1]),
                               (today - 6) + (i - 1))]))

CallWeekBorder ==
  \E start_ \in 1..today, days \in 5..7 :
    LogQuery("WeekBorder", WeekBorder(start_, start_ + days))

CallGetWeekReadingStatistics ==
  LogQuery("get_week_reading_statistics", get_week_reading_statistics)

\* The log file as the first day finds it: missing or empty, or holding the
\* record of that day.
Init ==
  /\ today = 1
  /\ log \in {<<>>} \cup {<<[date |-> 1, count |-> c, material_id |-> m]>> :
                            c \in Counts, m \in Materials}
  /\ statuses = [m \in Materials |-> None]
  /\ out = Quiet
  /\ file = dump(log)
  /\ current_card = None
  /\ repeated = 0

Next ==
  \/ HandBack
  \/ NextDay
  \/ set_today_log
  \/ set_yesterday_log
  \/ start_material
  \/ complete_material
  \/ CallData
  \/ CallLostTime
  \/ CallMaterialStatistics
  \/ CallEndOfReading
  \/ CallEstimate

Spec == Init /\ [][Next]_vars

\* ---- the aggregates of a log ---------------------------------------------------
\* the log of the days D, in date order, with the counts c and one material
LogOf(D, c, m) ==
  [i \in 1..Cardinality(D) |->
     [date |-> SetToSeq(D)[i], count |-> c[SetToSeq(D)[i]], material_id |-> m]]

\* The log file as a later day finds it: any days up to today, in date order,
\* each with a positive count.  No material has a status.
InitStat ==
  /\ today = MaxStatDay
  /\ log \in UNION {{LogOf(D, c, m) : c \in [D -> StatCounts], m \in Materials} :
                      D \in SUBSET (1..MaxStatDay)}
  /\ statuses = [m \in Materials |-> None]
  /\ out = Quiet
  /\ file = dump(log)
  /\ current_card = None
  /\ repeated = 0

NextStat ==
  \/ HandBack
  \/ CallTotal
  \/ CallDuration
  \/ CallLostTime
  \/ CallAverage
  \/ CallWouldBeTotal
  \/ CallMin
  \/ CallMax
  \/ CallMedian
  \/ CallLogStatistics
  \/ CallGetItem
  \/ CallMDuration
  \/ CallMTotal
  \/ CallMLostTime
  \/ CallMMin
  \/ CallMMax
  \/ CallMAverage
  \/ CallTrackerMMin
  \/ CallTrackerMMax

SpecStat == InitStat /\ [][NextStat]_vars

\* ---- the turns of data() ---------------------------------------------------------
\* the log of the days D, in date order, each day with its material
MixedLogOf(D, ms, c) ==
  [i \in 1..Cardinality(D) |->
     [date |-> SetToSeq(D)[i], count |-> c, material_id |-> ms[SetToSeq(D)[i]]]]

\* The log and the catalogue of statuses as a later day finds them: records of
\* any materials on any days up to today; any material id of the catalogue, the
\* id 0 among them, has no status or was completed on one of the days.
InitData ==
  /\ today = MaxDataDay
  /\ log \in UNION {{MixedLogOf(D, ms, 5) : ms \in [D -> Materials]} :
                      D \in SUBSET (1..MaxDataDay)}
  /\ statuses \in [{0} \cup Materials ->
                     {None} \cup {Some([started_at |-> 1, completed_at |-> Some(d)]) :
                                    d \in 1..MaxDataDay}]
  /\ out = Quiet
  /\ file = dump(log)
  /\ current_card = None
  /\ repeated = 0

NextData ==
  \/ HandBack
  \/ CallDataIter
  \/ DataTurn

SpecData == InitData /\ [][NextData]_vars

\* ---- src/tracker/system/schemas.py: class GetSpanReportRequest --------------------
\* a value handed to the constructor: a string of the form, a date, or None
FormStr(d) == [type |-> "str", day |-> d]
Date(d) == [type |-> "date", day |-> d]
NoneValue == [type |-> "None", day |-> 0]

\* GetSpanReportRequest.__init__ and the validator of stop: a stop that is not
\* a string is replaced by the date of today; the strings are parsed to dates
GetSpanReportRequest(start_, stop_) ==
  LET stop1 == IF stop_.type # "str" THEN Date(today) ELSE stop_
  IN  IF stop1.day > start_.day
      THEN Return([start |-> start_.day, stop |-> stop1.day])
      ELSE Raise("ValidationError")

size(self) == (self.stop - self.start) + 1

create_span_ago(self, ago) ==
  IF ago <= 0 THEN Raise("ValueError")
  ELSE GetSpanReportRequest(Date(self.start - ago), Date(self.stop - ago))

\* POST /report: the request is built from the values of the form
PostReport ==
  /\ out = Quiet
  /\ \E start_ \in {FormStr(d) : d \in 1..MaxSpanDay},
        stop_ \in {NoneValue} \cup {FormStr(d) : d \in 1..MaxSpanDay} :
       LET r == GetSpanReportRequest(start_, stop_)
       IN  out' = Outcome("GetSpanReportRequest", r.err, r.val)
  /\ UNCHANGED <<today, log, statuses, file, current_card, repeated>>

\* span.create_span_ago(ago) on the request just built
CallCreateSpanAgo ==
  /\ out.op = "GetSpanReportRequest"
  /\ out.err = ""
  /\ \E ago \in -1..MaxAgo :
       LET r == create_span_ago(out.val, ago)
       IN  out' = Outcome("create_span_ago", r.err,
                          [self |-> out.val, ago |-> ago, span |-> r.val])
  /\ UNCHANGED <<today, log, statuses, file, current_card, repeated>>

InitSpan ==
  /\ today \in 1..MaxSpanDay + 1
  /\ log = <<>>
  /\ statuses = [m \in Materials |-> None]
  /\ out = Quiet
  /\ file = dump(log)
  /\ current_card = None
  /\ repeated = 0

NextSpan ==
  \/ HandBack
  \/ PostReport
  \/ CallCreateSpanAgo

SpecSpan == InitSpan /\ [][NextSpan]_vars

\* ---- src/src/tracker.py: class Cards ----------------------------------------------
\* _MAX_PER_DAY: max count of cards repeated per day
MAX_PER_DAY == 25

CardIds == {1, 2, 3}

\* the lists db.get_cards() can give, in any order random.shuffle leaves them
Shuffles ==
  UNION {{c \in [1..n -> CardIds] : \A i, j \in 1..n : i # j => c[i] # c[j]} :
           n \in 0..Cardinality(CardIds)}

DbOutcomes == {"ok", "BaseDBError"}

repeated_today(db, n) == IF db = "BaseDBError" THEN MAX_PER_DAY ELSE n

get_cards(db, cards) == IF db = "BaseDBError" THEN <<>> ELSE cards

\* Cards.card: self is the current card; __cards is assigned anew before it is
\* popped, so nothing of it is carried from one access to the next
card(self, repeated_n, cards) ==
  IF repeated_n >= MAX_PER_DAY
  THEN [err |-> "CardsLimitExceeded", val |-> None, current |-> self]
  ELSE IF self = None
  THEN IF cards = <<>>
       THEN [err |-> "", val |-> None, current |-> None]
       ELSE [err |-> "", val |-> Some(Last(cards)), current |-> Some(Last(cards))]
  ELSE [err |-> "", val |-> self, current |-> self]

\* Cards.complete_card forgetting the current card whatever the database says
complete_card_forget(self, db) ==
  IF self = None THEN [err |-> "CardNotFound", current |-> self]
  ELSE IF db = "CardNotFound" THEN [err |-> "CardNotFound", current |-> None]
  ELSE IF db = "BaseDBError" THEN [err |-> "DatabaseError", current |-> None]
  ELSE [err |-> "", current |-> None]

\* Cards.complete_card: db is what db.complete_card does
complete_card(self, db) ==
  IF self = None THEN [err |-> "CardNotFound", current |-> self]
  ELSE IF db = "CardNotFound" THEN [err |-> "CardNotFound", current |-> self]
  ELSE IF db = "BaseDBError" THEN [err |-> "DatabaseError", current |-> self]
  ELSE [err |-> "", current |-> None]

\* cards.card is read
CardAccess ==
  /\ out = Quiet
  /\ \E db \in DbOutcomes, db_cards \in DbOutcomes, cards \in Shuffles :
       LET r == card(current_card, repeated_today(db, repeated),
                     get_cards(db_cards, cards))
       IN  /\ current_card' = r.current
           /\ out' = Outcome("card", r.err,
                             [db |-> db, cards |-> get_cards(db_cards, cards),
                              card |-> r.val])
  /\ UNCHANGED <<today, log, statuses, file, repeated>>

\* cards.complete_card(result) is called
CompleteCard ==
  /\ out = Quiet
  /\ \E db \in DbOutcomes \cup {"CardNotFound"} :
       LET r == complete_card(current_card, db)
       IN  /\ current_card' = r.current
           /\ out' = Outcome("complete_card", r.err, [db |-> db])
  /\ UNCHANGED <<today, log, statuses, file, repeated>>

\* the database records one more repeat of today
RepeatRecorded ==
  /\ out = Quiet
  /\ repeated < MAX_PER_DAY + MaxOver
  /\ repeated' = repeated + 1
  /\ UNCHANGED <<today, log, statuses, out, file, current_card>>

\* Cards.__init__: no current card; the database holds any count of repeats
InitCards ==
  /\ today = 1
  /\ log = <<>>
  /\ statuses = [m \in Materials |-> None]
  /\ out = Quiet
  /\ file = dump(log)
  /\ current_card = None
  /\ repeated \in 0..MAX_PER_DAY

NextCards ==
  \/ HandBack
  \/ CardAccess
  \/ CompleteCard
  \/ RepeatRecorded

SpecCards == InitCards /\ [][NextCards]_vars

\* ---- the week queries -----------------------------------------------------------
\* The reading log table on a day a whole week lies behind: rows on any of the
\* days up to today.
InitTrends ==
  /\ today \in WeekLen..MaxTrendDay
  /\ log \in UNION {{LogOf(D, [d \in D |-> c], 1) : c \in TrendCounts} :
                      D \in SUBSET (1..MaxTrendDay)}
  /\ \A i \in 1..Len(log) : log[i].date <= today
  /\ statuses = [m \in Materials |-> None]
  /\ out = Quiet
  /\ file = dump(log)
  /\ current_card = None
  /\ repeated = 0

NextTrends ==
  \/ HandBack
  \/ CallWeekStatistics
  \/ CallWeekBorder
  \/ CallGetWeekReadingStatistics

SpecTrends == InitTrends /\ [][NextTrends]_vars

LoggedDaysKept ==
  out.op = "data" =>
    /\ \A j \in 1..Len(out.val) :
         LogGet(log, out.val[j].date) # None =>
           out.val[j] = LogGet(log, out.val[j].date)[1]
    /\ \A i \in 1..Len(log) : \E j \in 1..Len(out.val) : out.val[j] = log[i]

\* data() has run over a log whose second record changes the material while
\* the first material is still on the stack
LoggedDaysKeptWitness ==
  /\ out.op = "data"
  /\ Len(log) = 2
  /\ log[1].material_id # log[2].material_id
  /\ log[1].material_id \notin DOMAIN completion_dates

\* the material an empty day belongs to: the one most recently logged on an
\* earlier day among those with no completion date on or before the day, the
\* sentinel 0 when there is none
ActiveMaterial(date) ==
  LET open == {i \in 1..Len(log) :
                 /\ log[i].date < date
                 /\ ~ (/\ log[i].material_id \in DOMAIN completion_dates
                       /\ completion_dates[log[i].material_id] <= date)}
  IN  IF open = {} THEN 0
      ELSE log[CHOOSE i \in open : \A j \in open : j <= i].material_id

\* C2: for a day with no log entry data() emits count 0 and the material most
\* recently logged on an earlier day among those not completed on or before
\* that day (the sentinel 0 when there is none); an empty day is never
\* attributed to a material completed on or before it.
EmptyDayAttribution ==
  out.op = "data" =>
    \A j \in 1..Len(out.val) :
      LogGet(log, out.val[j].date) = None =>
        /\ out.val[j].count = 0
        /\ out.val[j].material_id = ActiveMaterial(out.val[j].date)
        /\ ~ (/\ out.val[j].material_id \in DOMAIN completion_dates
              /\ completion_dates[out.val[j].material_id] <= out.val[j].date)

\* the log and the catalogue of the scenario: day1 -> (A, 10), day3 -> (B, 5),
\* material A completed on day2, B not completed, today = day3
ScenarioAB ==
  /\ today = 3
  /\ log = <<[date |-> 1, count |-> 10, material_id |-> 1],
             [date |-> 3, count |-> 5, material_id |-> 2]>>
  /\ DOMAIN completion_dates = {1}
  /\ completion_dates[1] = 2

PaceNeverZero ==
  out.op \in {"get_material_statistics", "estimate"} => out.err # "ZeroDivisionError"

\* the scenario of the queue forecast: queue [M1 (100 pages), M2 (50 pages)],
\* global average 25, end of reading = today + 1
ScenarioQueue ==
  /\ queue = <<1, 2>>
  /\ pages[1] = 100 /\ pages[2] = 50
  /\ average(log) = 25
  /\ end_of_reading = Return(today + 1)

EstimateIsSequential ==
  out.op = "estimate" =>
    /\ out.err = ""
    /\ Len(out.val) = Len(queue)
    /\ \A i \in 1..Len(out.val) :
         /\ out.val[i].material = queue[i]
         /\ out.val[i].will_be_completed =
              out.val[i].will_be_started + out.val[i].expected_duration
         /\ out.val[i].will_be_started <= out.val[i].will_be_completed
         /\ i > 1 => out.val[i].will_be_started = out.val[i - 1].will_be_completed + 1

\* the pace of a material: its own m_average when it is in the log, the
\* average of the whole log otherwise
Pace(material_id) ==
  IF Contains(log, material_id) THEN m_average(log, material_id).val ELSE average(log)

\* the pages of a material not read yet
RemainingPages(material_id) ==
  pages[material_id] -
    (IF Contains(log, material_id) THEN m_total(log, material_id).val ELSE 0)

RECURSIVE SumRemainingDays(_)
\* the sum of round(remaining pages / pace) over a list of materials
SumRemainingDays(materials) ==
  IF materials = <<>> THEN 0
  ELSE round(RemainingPages(Head(materials)), Pace(Head(materials)))
       + SumRemainingDays(Tail(materials))

\* C8: the end-of-reading date is today plus one day plus the sum of
\* remaining_days over the materials being read.
EndOfReadingIsSumPlusOne ==
  out.op = "_end_of_reading" =>
    /\ out.err = ""
    /\ out.val = <<today + 1 + SumRemainingDays(reading)>>

\* C9: get_material_statistics gives, for a material with no completion date,
\* remaining_pages = pages - m_total, remaining_days = round(remaining_pages /
\* pace) and would_be_completed = today + remaining_days; for a completed
\* material the three fields are None.
RemainingFields ==
  out.op = "get_material_statistics" =>
    /\ out.err = ""
    /\ LET st == out.val[1]
           m == st.material_id
       IN  IF st.completed = None
           THEN /\ st.remaining_pages = Some(RemainingPages(m))
                /\ st.remaining_days = Some(round(RemainingPages(m), Pace(m)))
                /\ st.would_be_completed = Some(today + st.remaining_days[1])
           ELSE /\ st.remaining_pages = None
                /\ st.remaining_days = None
                /\ st.would_be_completed = None

\* ---- Log: aggregates ------------------------------------------------------------
\* C10: Log.lost_time equals the number of records of data() whose count is 0.
LostTimeCountsEmptyDays ==
  out.op = "lost_time" =>
    out.val = <<Len(SelectSeq(data(log), LAMBDA r : r.count = 0))>>

\* C11: Log.duration equals the number of records of data(), the inclusive day
\* count from the first entry of the series to its last, and is 0 for an empty
\* log.
DurationIsSeriesLength ==
  out.op = "duration" =>
    /\ out.val = <<Len(data(log))>>
    /\ log = <<>> => out.val = <<0>>
    /\ log # <<>> => out.val = <<(Last(data(log)).date - data(log)[1].date) + 1>>

RECURSIVE CountsUpTo(_)
\* the pages of the first i records of the log
CountsUpTo(i) == IF i = 0 THEN 0 ELSE log[i].count + CountsUpTo(i - 1)

\* the days from the first record to the last, both counted
DaysSpanned == IF log = <<>> THEN 0 ELSE (log[Len(log)].date - log[1].date) + 1

\* the greatest whole number a with a * d <= n, for d > 0
IsFloorOf(a, n, d) == a * d <= n /\ n < (a + 1) * d

\* C12: Log.total is the sum of the counts of the records, Log.average is
\* total // duration when duration > 0 and 1 for an empty log, Log.would_be_total
\* is total + average * lost_time; each is a value of the log alone, so a
\* second computation on the same log gives the same value.
AggregatesOfTheLog ==
  /\ out.op = "total" => out.val = <<CountsUpTo(Len(log))>>
  /\ out.op = "average" =>
       IF log = <<>> THEN out.val = <<1>>
       ELSE /\ DaysSpanned > 0
            /\ IsFloorOf(out.val[1], CountsUpTo(Len(log)), DaysSpanned)
  /\ out.op = "would_be_total" =>
       \E a \in 0..CountsUpTo(Len(log)) + 1 :
         /\ IF log = <<>> THEN a = 1 ELSE IsFloorOf(a, CountsUpTo(Len(log)), DaysSpanned)
         /\ out.val = <<CountsUpTo(Len(log)) + a * (DaysSpanned - Len(log))>>

\* would_be_total has been read on a log with empty days whose average is
\* rounded down
AggregatesOfTheLogWitness ==
  /\ out.op = "would_be_total"
  /\ DaysSpanned > Len(log)
  /\ CountsUpTo(Len(log)) % DaysSpanned # 0
  /\ out.val[1] > CountsUpTo(Len(log))

\* the days between the first and the last record that have no record
EmptyDays ==
  IF log = <<>> THEN {}
  ELSE {d \in log[1].date..log[Len(log)].date : d \notin LogDates(log)}

\* C13: in every state reached by appending days to the log, Log.duration is
\* Log.lost_time plus the number of logged days, and lost_time is never
\* negative: it is the number of days without a record between the first and
\* the last record.
DurationBalance ==
  /\ duration(log) = lost_time(log) + Len(log)
  /\ lost_time(log) >= 0
  /\ lost_time(log) = Cardinality(EmptyDays)

\* a day has been appended after an empty day
DurationBalanceWitness ==
  /\ out.op \in {"set_today_log", "set_yesterday_log"}
  /\ out.err = ""
  /\ Len(log) = 2
  /\ lost_time(log) = 1

\* the fraction is the whole number v
IsWhole(x, v) == x.num = v * x.den

\* the counts of the log are, in some order, the values of the sequence c
CountsAre(c) ==
  /\ Len(log) = Len(c)
  /\ \A v \in StatCounts : Cardinality({i \in 1..Len(log) : log[i].count = v})
                       = Cardinality({i \in 1..Len(c) : c[i] = v})

\* C14 as claimed: the median of an even number of records is the floor of
\* the mean of the two central counts (1, 2, 3, 4 give 2), of an odd number the
\* middle count ([3] gives 3).
MedianFloorsTheMean ==
  (out.op = "median" /\ log # <<>>) =>
    /\ LET d == Sorted(SelectCounts(log))
           n == Len(d)
       IN  IF n % 2 = 1
           THEN IsWhole(out.val, d[(n \div 2) + 1])
           ELSE IsWhole(out.val, (d[n \div 2] + d[(n \div 2) + 1]) \div 2)
    /\ CountsAre(<<1, 2, 3, 4>>) => IsWhole(out.val, 2)
    /\ CountsAre(<<3>>) => IsWhole(out.val, 3)

\* C14 amended: the median of an even number of records is the mean of the two
\* central counts, not rounded (1, 2, 3, 4 give 5 / 2), of an odd number the
\* middle count ([3] gives 3); at most half of the counts lie below it and at
\* most half above it.
MedianIsTheMean ==
  (out.op = "median" /\ log # <<>>) =>
    /\ out.err = ""
    /\ 2 * Cardinality({i \in 1..Len(log) : log[i].count * out.val.den < out.val.num})
         <= Len(log)
    /\ 2 * Cardinality({i \in 1..Len(log) : log[i].count * out.val.den > out.val.num})
         <= Len(log)
    /\ Len(log) % 2 = 1 =>
         /\ out.val.den = 1
         /\ \E i \in 1..Len(log) : log[i].count = out.val.num
    /\ Len(log) % 2 = 0 =>
         /\ out.val.den = 2
         /\ \E i, j \in 1..Len(log) :
              /\ i # j
              /\ out.val.num = log[i].count + log[j].count
              /\ log[i].count * 2 <= out.val.num
              /\ log[j].count * 2 >= out.val.num
    /\ CountsAre(<<1, 2, 3, 4>>) => out.val = Halves(5)
    /\ CountsAre(<<3>>) => out.val = Whole(3)

\* the median has been read on a log of the counts 1, 2, 3, 4
MedianIsTheMeanWitness ==
  /\ out.op = "median"
  /\ CountsAre(<<1, 2, 3, 4>>)
  /\ out.val.den = 2

\* C15 as claimed: on an empty log Log.min, Log.max, Log.median and
\* Log.statistics each raise ReadingLogIsEmpty; none returns a default value.
EmptyLogRaises ==
  (log = <<>> /\ out.op \in {"min", "max", "median", "statistics"}) =>
    out.err = "ReadingLogIsEmpty"

\* C15 amended: on an empty log Log.min, Log.max and Log.statistics raise
\* ReadingLogIsEmpty; Log.median raises nothing and returns 0.
EmptyLogRaisesButMedian ==
  log = <<>> =>
    /\ out.op \in {"min", "max", "statistics"} => out.err = "ReadingLogIsEmpty"
    /\ out.op = "median" => (out.err = "" /\ IsWhole(out.val, 0))

\* the median has been read on an empty log
EmptyLogWitness ==
  /\ log = <<>>
  /\ out.op = "median"

\* C16: every per-material query (m_min, m_max, m_total, m_average, m_duration,
\* m_lost_time) asked about a material id no record carries raises
\* NoMaterialInLog, never ReadingLogIsEmpty and never a value.
AbsentMaterialRaises ==
  (/\ out.op \in {"m_min", "m_max", "m_total", "m_average", "m_duration",
                  "m_lost_time", "tracker.m_min", "tracker.m_max"}
   /\ ~Contains(log, out.val[1]))
    => out.err = "NoMaterialInLog"

\* C17: Log.min and Log.max return the record of the least, respectively the
\* greatest, count; of several days with that count both return the earliest.
MinMaxFirstOfTies ==
  /\ (out.op = "min" /\ log # <<>>) =>
       /\ out.err = ""
       /\ \E i \in 1..Len(log) :
            /\ out.val = log[i]
            /\ \A j \in 1..Len(log) : log[j].count >= log[i].count
            /\ \A j \in 1..Len(log) :
                 log[j].count = log[i].count => log[j].date >= log[i].date
  /\ (out.op = "max" /\ log # <<>>) =>
       /\ out.err = ""
       /\ \E i \in 1..Len(log) :
            /\ out.val = log[i]
            /\ \A j \in 1..Len(log) : log[j].count <= log[i].count
            /\ \A j \in 1..Len(log) :
                 log[j].count = log[i].count => log[j].date >= log[i].date

\* max has been read on a log whose greatest count is shared by two days
MinMaxFirstOfTiesWitness ==
  /\ out.op = "max"
  /\ Len(log) = 3
  /\ log[2].count = log[3].count
  /\ log[1].count < log[2].count

\* ---- the week queries: claims ------------------------------------------------------
\* the days of the week that ends today on which the log has a row
WeekDaysLogged == {d \in LogDates(log) : d >= today - 6 /\ d <= today}

\* C18 as claimed: a week aggregation whose amount source has values for only
\* 5 of the 7 days fails with an error; the missing days are not filled with 0.
PartialWeekFails ==
  (out.op = "get_week_reading_statistics" /\ Cardinality(WeekDaysLogged) = 5) =>
    out.err # ""

\* C18 amended: a week aggregation whose amount source has values for only 5
\* of the 7 days succeeds: the days of the source keep their amounts and the 2
\* missing days get the amount 0, 7 days in all.
PartialWeekZeroFilled ==
  (out.op = "get_week_reading_statistics" /\ Cardinality(WeekDaysLogged) = 5) =>
    /\ out.err = ""
    /\ Len(out.val.data) = 7
    /\ \A i \in 1..7 :
         /\ out.val.data[i].date = (today - 6) + (i - 1)
         /\ out.val.data[i].date \in WeekDaysLogged =>
              out.val.data[i].amount = LogGet(log, out.val.data[i].date)[1].count
         /\ out.val.data[i].date \notin WeekDaysLogged => out.val.data[i].amount = 0
    /\ Cardinality({i \in 1..7 : out.val.data[i].amount = 0}) = 2

\* the week has been aggregated over a log with rows on 5 of its 7 days
PartialWeekWitness ==
  /\ out.op = "get_week_reading_statistics"
  /\ Cardinality(WeekDaysLogged) = 5

\* C19: a WeekStatistics is built from exactly 7 days and a WeekBorder from a
\* start and a stop exactly 6 days apart; any other length raises
\* TrendException, so every WeekStatistics that exists holds exactly 7 days.
WeekHasSevenDays ==
  /\ out.op = "WeekStatistics" =>
       IF out.err = ""
       THEN Len(out.val.data) = 7
       ELSE out.err = "TrendException" /\ out.val[1] # 7
  /\ out.op = "WeekBorder" =>
       IF out.err = ""
       THEN out.val.stop - out.val.start = 6
       ELSE out.err = "TrendException" /\ out.val[2] - out.val[1] # 6
  /\ (out.op = "get_week_reading_statistics" /\ out.err = "") =>
       Len(out.val.data) = 7

\* a WeekStatistics of fewer than 7 days has been refused
WeekHasSevenDaysWitness ==
  /\ out.op = "WeekStatistics"
  /\ out.err = "TrendException"
  /\ out.val = <<5>>

\* ---- Log: appending a day -----------------------------------------------------------
\* the date a call of set_today_log or set_yesterday_log is about
DateOfCall(op) == IF op = "set_today_log" THEN today ELSE yesterday

\* C20: after any sequence of set_today_log and set_yesterday_log calls the
\* log holds at most one record per date, in strictly increasing date order; a
\* call whose date is not strictly after the last logged date is rejected with
\* WrongLogParam and leaves the log as it was.
LogDatesIncrease ==
  /\ [](\A i \in 1..Len(log) - 1 : log[i].date < log[i + 1].date)
  /\ [][(/\ out'.op \in {"set_today_log", "set_yesterday_log"}
         /\ log # <<>>
         /\ DateOfCall(out'.op) <= stop(log))
          => (out'.err = "WrongLogParam" /\ log' = log)]_vars

\* a call about a date not after the last logged date has been rejected
LogDatesIncreaseWitness ==
  /\ out.op = "set_yesterday_log"
  /\ out.err = "WrongLogParam"
  /\ Len(log) = 2
  /\ yesterday <= stop(log)

\* C21: on an empty log set_today_log with count > 0 and a material_id stores
\* the first record, and with no material_id raises WrongLogParam;
\* WrongLogParam is the only error the parameter checks of _set_log raise, so a
\* call ends with no error, with WrongLogParam, or with the DatabaseError of
\* the title lookup.
SetLogRaisesOnlyWrongLogParam ==
  out.op \in {"set_today_log", "set_yesterday_log"} =>
    out.err \in {"", "WrongLogParam", "DatabaseError"}

\* C28: a set_today_log or set_yesterday_log call that raises WrongLogParam
\* or DatabaseError leaves the log in memory as it was and writes nothing to
\* the log file.
FailedSetLogChangesNothing ==
  [][(/\ out'.op \in {"set_today_log", "set_yesterday_log"}
      /\ out'.err \in {"WrongLogParam", "DatabaseError"})
       => (log' = log /\ file' = file)]_vars

\* a call on a log with a record has failed at the title lookup
FailedSetLogWitness ==
  /\ out.op = "set_today_log"
  /\ out.err = "DatabaseError"
  /\ Len(log) = 1
  /\ file = dump(log)

\* ---- the statuses: claims -----------------------------------------------------------
\* the material has a completion date
Completed(m) == statuses[m] # None /\ statuses[m][1].completed_at # None

\* C22: after any sequence of start_material and complete_material calls every
\* status with completed_at set has completed_at >= started_at;
\* complete_material with a completion date before started_at raises an error
\* and leaves the status unchanged.
CompletedAfterStarted ==
  /\ [](\A m \in Materials :
          Completed(m) => statuses[m][1].completed_at[1] >= statuses[m][1].started_at)
  /\ [][(out'.op = "complete_material" /\ out'.err # "") => statuses' = statuses]_vars

\* every material was started today, none is completed, and complete_material
\* has raised: the call was about yesterday, a date before started_at
CompletedAfterStartedWitness ==
  /\ out.op = "complete_material"
  /\ out.err = "ValueError"
  /\ \A m \in Materials :
       /\ statuses[m] # None
       /\ statuses[m][1].started_at = today
       /\ statuses[m][1].completed_at = None

\* C29: complete_material on a material with no status, or on one whose status
\* has completed_at set, raises ValueError and changes nothing; completed_at of
\* a material is set at most once and never changes afterwards.
CompletedOnce ==
  /\ [][\A m \in Materials : Completed(m) => statuses'[m] = statuses[m]]_vars
  /\ [][(/\ out'.op = "complete_material"
         /\ \A m \in Materials : statuses[m] = None \/ Completed(m))
          => (out'.err = "ValueError" /\ statuses' = statuses)]_vars

\* complete_material has raised when every material was completed already
CompletedOnceWitness ==
  /\ out.op = "complete_material"
  /\ out.err = "ValueError"
  /\ \A m \in Materials : Completed(m)

\* ---- Log: slices --------------------------------------------------------------------
\* C24: slicing a non-empty log, Log[start:stop], gives a new Log that holds
\* exactly the records whose date d satisfies start <= d < stop: the record
\* dated stop is excluded.
SliceExcludesStop ==
  (/\ out.op = "getitem"
   /\ out.err = ""
   /\ out.val.start # None /\ out.val.stop # None /\ out.val.step = None)
    => /\ \A i \in 1..Len(log) :
            (log[i].date >= out.val.start[1] /\ log[i].date < out.val.stop[1])
              <=> (\E j \in 1..Len(out.val.log) : out.val.log[j] = log[i])
       /\ \A j \in 1..Len(out.val.log) :
            \E i \in 1..Len(log) : out.val.log[j] = log[i]

\* ---- Log.data(): the stack of materials -------------------------------------------
\* the stack after the completion pop of the turn of the day iter_
AfterPop(materials, iter_) ==
  IF /\ materials # <<>>
     /\ Last(materials) \in DOMAIN completion_dates
     /\ completion_dates[Last(materials)] <= iter_
  THEN SubSeq(materials, 1, Len(materials) - 1)
  ELSE materials

\* the ids of the stack other than m, in their order
Others(materials, m) == SelectSeq(materials, LAMBDA x : x # m)

NeverPopsEmptyStack ==
  out.op = "data.iter" => out.err # "IndexError"

\* C27: at every step of data() the stack holds each material id at most once.
StackHoldsEachOnce ==
  out.op = "data.iter" =>
    \A i, j \in 1..Len(out.val.materials) :
      i # j => out.val.materials[i] # out.val.materials[j]

\* a material has been logged again while it was on the stack
StackHoldsEachOnceWitness ==
  /\ out.op = "data.iter"
  /\ out.err = ""
  /\ Len(log) = 3
  /\ out.val.info # None
  /\ out.val.info[1].date = log[3].date
  /\ out.val.materials = <<log[2].material_id, log[1].material_id>>
  /\ log[1].material_id = log[3].material_id
  /\ log[1].material_id # log[2].material_id

\* ---- GetSpanReportRequest.create_span_ago -----------------------------------------
\* C23: create_span_ago(ago) with ago > 0 returns a span whose start and stop
\* are the original ones moved back by ago days, so of the same size; ago <= 0
\* raises ValueError.
SpanAgoIsShifted ==
  out.op = "create_span_ago" =>
    IF out.val.ago <= 0 THEN out.err = "ValueError"
    ELSE /\ out.err = ""
         /\ out.val.span.start = out.val.self.start - out.val.ago
         /\ out.val.span.stop = out.val.self.stop - out.val.ago
         /\ size(out.val.span) = size(out.val.self)

\* ---- Cards: the session of one card -----------------------------------------------
\* the number of repeats of today cannot be read, or it has reached the limit
LimitReached(db) == db = "BaseDBError" \/ repeated >= MAX_PER_DAY

\* C30: Cards.card raises CardsLimitExceeded whenever the repeats of today have
\* reached the daily limit or cannot be read, and otherwise returns the current
\* card, the same one on every access until complete_card succeeds;
\* complete_card without a current card raises CardNotFound, forgets the
\* current card on success and keeps it when the database call fails.
CardsSession ==
  [][/\ (out = Quiet /\ out'.op = "card") =>
          /\ LimitReached(out'.val.db) <=> out'.err = "CardsLimitExceeded"
          /\ out'.err \in {"", "CardsLimitExceeded"}
          /\ LimitReached(out'.val.db) => current_card' = current_card
          /\ (~LimitReached(out'.val.db) /\ current_card # None) =>
               /\ out'.val.card = current_card
               /\ current_card' = current_card
          /\ (~LimitReached(out'.val.db) /\ current_card = None) =>
               out'.val.card = current_card'
     /\ (out = Quiet /\ out'.op = "complete_card") =>
          /\ current_card = None =>
               out'.err = "CardNotFound" /\ current_card' = None
          /\ current_card # None =>
               /\ out'.err = "" <=> out'.val.db = "ok"
               /\ out'.err = "" => current_card' = None
               /\ out'.err # "" => current_card' = current_card
     /\ (current_card # None /\ current_card' # current_card) =>
          /\ out'.op = "complete_card"
          /\ out'.err = ""
          /\ current_card' = None]_vars

\* the current card is returned by an access that found no card in the database
CardsSessionWitness ==
  /\ out.op = "card"
  /\ out.err = ""
  /\ out.val.cards = <<>>
  /\ current_card # None
  /\ out.val.card = current_card
====
